---- MODULE Spec2Model ----
(***************************************************************************)
(* Turn-based game-session orchestration of the collaborative image game   *)
(* (REST + WebSocket backend): room registry, moderation gate and the game *)
(* session state machine, with every request handler split at the awaits   *)
(* where other requests can interleave.                                    *)
(***************************************************************************)
EXTENDS Integers, Sequences, FiniteSets, TLC

(***************************************************************************)
(* Bounds of the model.                                                    *)
(***************************************************************************)
\* no more than MaxRecords Turn rows are ever written
MaxRecords == 4
\* join codes are drawn from 1..NumCodes
NumCodes == 2
\* no more than MaxChecks checkPrompt calls are made
MaxChecks == 3

(***************************************************************************)
(* Program constants.                                                      *)
(***************************************************************************)
MaxCodeAttempts == 10
MinPromptLength == 3
MaxPromptLength == 500
MinPlayers == 2
MaxPlayers == 20
MinTurns == 1
MaxTurns == 50
DefaultMaxPlayers == 8
DefaultMaxTurns == 10
LogPromptLength == 1000
PollMaxAttempts == 30

NULL == "null"

\* the value of new Date() (the model keeps no clock)
Now == "now"
NoImage == 0

\* the users of the system; "h" creates (hosts) the room under study
Users == {"h", "a", "b"}
Hosts == {"h"}

(***************************************************************************)
(* Strings are sequences of one-character strings.                         *)
(***************************************************************************)
UpperChars == <<"A","B","C","D","E","F","G","H","I","J","K","L","M",
                "N","O","P","Q","R","S","T","U","V","W","X","Y","Z">>
LowerChars == <<"a","b","c","d","e","f","g","h","i","j","k","l","m",
                "n","o","p","q","r","s","t","u","v","w","x","y","z">>
DigitChars == {"0","1","2","3","4","5","6","7","8","9"}
WhitespaceChars == {" ", "\t", "\n"}

Range(s) == {s[i] : i \in DOMAIN s}

IsAlnum(c) == c \in Range(UpperChars) \cup Range(LowerChars) \cup DigitChars

IsWordChar(c) == IsAlnum(c) \/ c = "_"

ToLowerChar(c) ==
  IF \E i \in DOMAIN UpperChars : UpperChars[i] = c
  THEN LowerChars[CHOOSE i \in DOMAIN UpperChars : UpperChars[i] = c]
  ELSE c

ToLowerCase(s) == [i \in DOMAIN s |-> ToLowerChar(s[i])]

RECURSIVE TrimStart(_)
TrimStart(s) ==
  IF s # <<>> /\ Head(s) \in WhitespaceChars THEN TrimStart(Tail(s)) ELSE s

RECURSIVE TrimEnd(_)
TrimEnd(s) ==
  IF s # <<>> /\ s[Len(s)] \in WhitespaceChars
  THEN TrimEnd(SubSeq(s, 1, Len(s) - 1))
  ELSE s

Trim(s) == TrimEnd(TrimStart(s))

StartsWithAt(s, i, w) ==
  /\ i >= 1
  /\ i + Len(w) - 1 <= Len(s)
  /\ SubSeq(s, i, i + Len(w) - 1) = w

Includes(s, w) == \E i \in 1..(Len(s) + 1) : StartsWithAt(s, i, w)

\* prompt.replace(/\s+/g, ' ')
RECURSIVE CollapseWhitespace(_)
CollapseWhitespace(s) ==
  IF s = <<>> THEN <<>>
  ELSE IF Head(s) \in WhitespaceChars
       THEN <<" ">> \o CollapseWhitespace(TrimStart(s))
       ELSE <<Head(s)>> \o CollapseWhitespace(Tail(s))

Substring(s, n) == IF Len(s) > n THEN SubSeq(s, 1, n) ELSE s

(***************************************************************************)
(* Moderation gate.                                                        *)
(***************************************************************************)
BLOCKED_WORDS == <<
  <<"k","i","l","l">>, <<"m","u","r","d","e","r">>, <<"d","e","a","t","h">>,
  <<"v","i","o","l","e","n","c","e">>, <<"b","l","o","o","d">>,
  <<"g","o","r","e">>, <<"t","o","r","t","u","r","e">>,
  <<"n","u","d","e">>, <<"n","a","k","e","d">>, <<"n","s","f","w">>,
  <<"p","o","r","n">>, <<"x","x","x">>, <<"s","e","x","u","a","l">>,
  <<"e","r","o","t","i","c">>,
  <<"h","a","t","e">>, <<"r","a","c","i","s","t">>, <<"n","a","z","i">>,
  <<"d","i","s","c","r","i","m","i","n","a","t","i","o","n">>,
  <<"s","u","i","c","i","d","e">>, <<"s","e","l","f","-","h","a","r","m">>,
  <<"d","r","u","g","s">>, <<"i","l","l","e","g","a","l">> >>

\* each pattern is \b g1 \s+ g2 (\s+ g3), a group being a set of words
BLOCKED_PATTERNS == <<
  << {<<"k","i","l","l">>, <<"m","u","r","d","e","r">>, <<"h","u","r","t">>},
     {<<"p","e","o","p","l","e">>, <<"p","e","r","s","o","n">>,
      <<"s","o","m","e","o","n","e">>, <<"c","h","i","l","d">>,
      <<"c","h","i","l","d","r","e","n">>} >>,
  << {<<"n","u","d","e">>, <<"n","a","k","e","d">>},
     {<<"w","o","m","a","n">>, <<"m","a","n">>, <<"p","e","r","s","o","n">>,
      <<"c","h","i","l","d">>, <<"c","h","i","l","d","r","e","n">>} >>,
  << {<<"e","x","p","l","i","c","i","t">>},
     {<<"c","o","n","t","e","n","t">>, <<"i","m","a","g","e">>,
      <<"p","i","c","t","u","r","e">>} >>,
  << {<<"c","h","i","l","d">>, <<"c","h","i","l","d","r","e","n">>},
     {<<"i","n">>},
     {<<"d","a","n","g","e","r">>, <<"t","r","o","u","b","l","e">>} >> >>

\* \b before position i: exactly one of s[i-1], s[i] is a word character
WordBoundaryAt(s, i) ==
  LET before == i > 1 /\ i - 1 <= Len(s) /\ IsWordChar(s[i - 1])
      after  == i >= 1 /\ i <= Len(s) /\ IsWordChar(s[i])
  IN before # after

RECURSIVE MatchGroupsAt(_, _, _, _)
MatchGroupsAt(s, i, groups, k) ==
  \E w \in groups[k] :
    /\ StartsWithAt(s, i, w)
    /\ IF k = Len(groups) THEN TRUE
       ELSE \E n \in 1..Len(s) :
              /\ \A j \in 0..(n - 1) :
                   i + Len(w) + j <= Len(s) /\ s[i + Len(w) + j] \in WhitespaceChars
              /\ MatchGroupsAt(s, i + Len(w) + n, groups, k + 1)

PatternTest(groups, s) ==
  \E i \in 1..Len(s) : WordBoundaryAt(s, i) /\ MatchGroupsAt(s, i, groups, 1)

FirstBlockedWord(s) ==
  IF \E k \in DOMAIN BLOCKED_WORDS : Includes(s, BLOCKED_WORDS[k])
  THEN LET k == CHOOSE k \in DOMAIN BLOCKED_WORDS :
                  /\ Includes(s, BLOCKED_WORDS[k])
                  /\ \A j \in 1..(k - 1) : ~Includes(s, BLOCKED_WORDS[j])
       IN BLOCKED_WORDS[k]
  ELSE <<>>

\* ModerationService.checkPrompt: {flagged, reason, cleanedPrompt}
checkPrompt(prompt) ==
  LET normalizedPrompt == Trim(ToLowerCase(prompt))
      word == FirstBlockedWord(normalizedPrompt)
  IN IF word # <<>>
     THEN [flagged |-> TRUE, reason |-> "prohibited content", word |-> word,
           cleanedPrompt |-> prompt]
     ELSE IF \E k \in DOMAIN BLOCKED_PATTERNS :
               PatternTest(BLOCKED_PATTERNS[k], normalizedPrompt)
     THEN [flagged |-> TRUE, reason |-> "harmful content pattern", word |-> <<>>,
           cleanedPrompt |-> prompt]
     ELSE [flagged |-> FALSE, reason |-> NULL, word |-> <<>>,
           cleanedPrompt |->
             Substring(Trim(CollapseWhitespace(prompt)), MaxPromptLength)]

\* ModerationService.validatePromptFormat: "valid" or the error it reports
validatePromptFormat(prompt) ==
  LET trimmedPrompt == Trim(prompt)
  IN IF prompt = <<>> THEN "Prompt is required"
     ELSE IF Len(trimmedPrompt) < MinPromptLength THEN "Prompt must be at least 3 characters"
     ELSE IF Len(trimmedPrompt) > MaxPromptLength THEN "Prompt must not exceed 500 characters"
     ELSE IF ~(\E i \in DOMAIN trimmedPrompt : IsAlnum(trimmedPrompt[i]))
          THEN "Prompt must contain alphanumeric characters"
     ELSE "valid"

\* the prompts requests are submitted with
P_EMPTY   == <<>>
P_SHORT   == <<" ", "a", "b", " ">>
P_SYMBOLS == <<"!", "?", "!">>
P_BLOCKED == <<"K", "i", "l", "l", " ", "i", "t">>
P_PATTERN == <<"h", "u", "r", "t", " ", " ", "s", "o", "m", "e", "o", "n", "e">>
P_OK      == <<"a", "d", "d", " ", " ", "c", "a", "t", " ">>
Prompts == {P_EMPTY, P_SHORT, P_SYMBOLS, P_BLOCKED, P_PATTERN, P_OK}

INITIAL_UPLOADED_IMAGE == <<"I","n","i","t","i","a","l"," ","u","p","l","o","a","d","e","d"," ","i","m","a","g","e">>


(***************************************************************************)
(* State.                                                                  *)
(***************************************************************************)
VARIABLES
  room,          \* the GameRoom row of the room under study
  participants,  \* its RoomParticipant rows, keyed by (roomId, userId)
  turns,         \* its GameTurn rows, in insertion order
  imageCount,    \* images produced so far (each image is a fresh number)
  turnReq,       \* POST /:roomId/turn requests in flight
  startReq,      \* POST /:roomId/start request in flight
  skipReq,       \* POST /:roomId/skip request in flight
  leaveReq,      \* POST /:roomId/leave request in flight
  joinReq,       \* POST /:roomId/join request in flight
  response,      \* the HTTP response sent by the latest step, if any
  published,     \* the socket events emitted by the latest step
  gameRooms,     \* the GameRoom table as the room registry sees it
  createReq,     \* POST / (create room) requests in flight
  enabled,       \* ModerationService.enabled (ENABLE_CONTENT_MODERATION)
  lastIndex,     \* the lastIndex property of each BLOCKED_PATTERNS regex
  moderationLog, \* the ModerationLog table
  checkCalls,    \* the checkPrompt calls made so far, with their results
  pollReq,       \* the pollForResult call of the image adapter
  settingsReq    \* PATCH /:roomId (room settings) request in flight

storeVars == <<room, participants, turns, imageCount>>
reqVars == <<turnReq, startReq, skipReq, leaveReq, joinReq>>
outVars == <<response, published>>
gameVars == <<room, participants, turns, imageCount, turnReq, startReq,
              skipReq, leaveReq, joinReq>>
registryVars == <<gameRooms, createReq>>
serviceVars == <<enabled, lastIndex, moderationLog, checkCalls, pollReq,
                 settingsReq>>
vars == <<room, participants, turns, imageCount, turnReq, startReq, skipReq,
          leaveReq, joinReq, response, published, gameRooms, createReq,
          enabled, lastIndex, moderationLog, checkCalls, pollReq,
          settingsReq>>

TurnSlots == {1, 2}
CreateSlots == {1, 2}

Resp(op, code, error) == [op |-> op, code |-> code, error |-> error]
NoResponse == Resp("none", 0, "none")

\* gameRoom.findUnique returns null: the room id names no room
NoRoom == [status |-> "NONE", hostId |-> NULL, maxPlayers |-> 0,
           maxTurns |-> 0, currentTurn |-> 0, currentPlayerId |-> NULL,
           currentImageUrl |-> NoImage, endedAt |-> NULL]

NoRow == [exists |-> FALSE, turnOrder |-> 0, isActive |-> FALSE]

IdleTurn == [pc |-> "idle", playerId |-> NULL, cleanedPrompt |-> <<>>,
             currentTurn |-> 0, maxTurns |-> 0, currentImageUrl |-> NoImage,
             nextPlayer |-> NULL]
IdleStart == [pc |-> "idle", hostId |-> NULL, hasImage |-> FALSE,
              initialPrompt |-> <<>>, cleanedPrompt |-> <<>>,
              firstPlayer |-> NULL]
IdleSkip == [pc |-> "idle", skippedPlayerId |-> NULL, nextPlayer |-> NULL]
IdleLeave == [pc |-> "idle", userId |-> NULL]
IdleJoin == [pc |-> "idle", userId |-> NULL, existing |-> FALSE, turnOrder |-> 0]
IdleCreate == [pc |-> "idle", userId |-> NULL, maxPlayers |-> 0, maxTurns |-> 0,
               attempts |-> 0, code |-> 0]

(***************************************************************************)
(* Queries on the participant table.                                       *)
(***************************************************************************)
\* participants: { where: { isActive: true } }
ActiveParticipants(ps) == {u \in Users : ps[u].exists /\ ps[u].isActive}

\* ... orderBy: { turnOrder: 'asc' }; rows of equal turnOrder come in any order
OrderedActive(ps) ==
  LET act == ActiveParticipants(ps)
      n == Cardinality(act)
  IN {s \in [1..n -> act] :
        /\ \A i, j \in 1..n : i # j => s[i] # s[j]
        /\ \A i, j \in 1..n : i < j => ps[s[i]].turnOrder <= ps[s[j]].turnOrder}

\* Array.prototype.findIndex, 0-based, -1 when absent
FindIndex(list, userId) ==
  IF \E i \in DOMAIN list : list[i] = userId
  THEN (CHOOSE i \in DOMAIN list :
          list[i] = userId /\ \A j \in 1..(i - 1) : list[j] # userId) - 1
  ELSE -1

\* the participant following userId in the list, wrapping to the first
NextPlayer(list, userId) ==
  LET currentPlayerIndex == FindIndex(list, userId)
      nextPlayerIndex == (currentPlayerIndex + 1) % Len(list)
  IN list[nextPlayerIndex + 1]

\* Math.max(...room.participants.map(p => p.turnOrder), -1)
MaxTurnOrder(ps) ==
  LET orders == {ps[u].turnOrder : u \in ActiveParticipants(ps)} \cup {-1}
  IN CHOOSE m \in orders : \A o \in orders : o <= m

\* the completion test one turn early
IsGameComplete_OffByOne(newTurnNumber, maxTurns) == newTurnNumber >= maxTurns

\* const isGameComplete = newTurnNumber > room.maxTurns
IsGameComplete(newTurnNumber, maxTurns) == newTurnNumber > maxTurns

\* the ownership test against the host instead of the current player
NotYourTurn_HostCheck(rm, playerId) == rm.hostId # playerId

\* if (room.currentPlayerId !== playerId) throw 403
NotYourTurn(rm, playerId) == rm.currentPlayerId # playerId

(***************************************************************************)
(* POST /:roomId/turn  ->  GameService.processTurn                         *)
(***************************************************************************)
\* the errors the image service adapter surfaces (rate limit, timeout)
ImageErrors == {504}

\* the two moderation results of every prompt a request can carry
CheckedPrompts == [p \in Prompts |-> checkPrompt(p)]
ValidatedPrompts == [p \in Prompts |-> validatePromptFormat(p)]

\* the prompts turn and start requests are submitted with
GamePrompts == {P_EMPTY, P_SHORT, P_BLOCKED, P_OK}

\* isRoomParticipant, then the checks between the room read and the image
\* call, as the response they produce (code 200: all passed)
ProcessTurnCheck(rm, ps, playerId, prompt) ==
  IF ~ps[playerId].exists \/ ~ps[playerId].isActive
  THEN Resp("processTurn", 403, "You are not a participant in this room")
  ELSE IF prompt = <<>> THEN Resp("processTurn", 400, "Prompt is required")
  ELSE IF rm.status # "IN_PROGRESS"
       THEN Resp("processTurn", 400, "Game is not in progress")
  ELSE IF NotYourTurn(rm, playerId)
       THEN Resp("processTurn", 403, "It is not your turn")
  ELSE IF ValidatedPrompts[prompt] # "valid"
       THEN Resp("processTurn", 400, ValidatedPrompts[prompt])
  ELSE IF CheckedPrompts[prompt].flagged
       THEN Resp("processTurn", 400, CheckedPrompts[prompt].reason)
  ELSE Resp("processTurn", 200, "ok")

\* a turn request that emits turn:processing before it makes its checks
ProcessTurnBegin_EarlyNotify(r, playerId, prompt) ==
  LET req == turnReq[r]
      check == ProcessTurnCheck(room, participants, playerId, prompt)
  IN /\ req.pc = "idle"
     /\ published' = {"turn:processing"}
     /\ IF check.code = 200
        THEN \E list \in OrderedActive(participants) :
               /\ turnReq' = [turnReq EXCEPT ![r] =
                    [req EXCEPT !.pc = "editing",
                                !.playerId = playerId,
                                !.cleanedPrompt = CheckedPrompts[prompt].cleanedPrompt,
                                !.currentTurn = room.currentTurn,
                                !.maxTurns = room.maxTurns,
                                !.currentImageUrl = room.currentImageUrl,
                                !.nextPlayer = NextPlayer(list, playerId)]]
               /\ response' = NoResponse
        ELSE /\ UNCHANGED turnReq
             /\ response' = check
     /\ UNCHANGED <<storeVars, startReq, skipReq, leaveReq, joinReq, registryVars, serviceVars>>

\* read the room with its active participants, validate, emit
\* turn:processing and start the image edit; of the participants read, the
\* request keeps the one the code picks from them after the edit
ProcessTurnBegin(r, playerId, prompt) ==
  LET req == turnReq[r]
      check == ProcessTurnCheck(room, participants, playerId, prompt)
  IN /\ req.pc = "idle"
     /\ IF check.code = 200
        THEN \E list \in OrderedActive(participants) :
               /\ turnReq' = [turnReq EXCEPT ![r] =
                    [req EXCEPT !.pc = "editing",
                                !.playerId = playerId,
                                !.cleanedPrompt = CheckedPrompts[prompt].cleanedPrompt,
                                !.currentTurn = room.currentTurn,
                                !.maxTurns = room.maxTurns,
                                !.currentImageUrl = room.currentImageUrl,
                                !.nextPlayer = NextPlayer(list, playerId)]]
               /\ response' = NoResponse
               /\ published' = {"turn:processing"}
        ELSE /\ UNCHANGED turnReq
             /\ response' = check
             /\ published' = {}
     /\ UNCHANGED <<storeVars, startReq, skipReq, leaveReq, joinReq, registryVars, serviceVars>>

\* the Turn row written before the edit's outcome is known
ProcessTurnEditFail_PartialTurn(r, code) ==
  /\ turnReq[r].pc = "editing"
  /\ Len(turns) < MaxRecords
  /\ turns' = Append(turns, [turnNumber |-> turnReq[r].currentTurn,
                             playerId |-> turnReq[r].playerId,
                             prompt |-> turnReq[r].cleanedPrompt,
                             inputImageUrl |-> turnReq[r].currentImageUrl,
                             outputImageUrl |-> NoImage])
  /\ turnReq' = [turnReq EXCEPT ![r] = IdleTurn]
  /\ response' = Resp("processTurn", code, "image service error")
  /\ published' = {"turn:error"}
  /\ UNCHANGED <<room, participants, imageCount, startReq, skipReq, leaveReq,
                 joinReq, registryVars, serviceVars>>

\* editImage throws: emit turn:error and rethrow, nothing is written
ProcessTurnEditFail(r, code) ==
  /\ turnReq[r].pc = "editing"
  /\ turnReq' = [turnReq EXCEPT ![r] = IdleTurn]
  /\ response' = Resp("processTurn", code, "image service error")
  /\ published' = {"turn:error"}
  /\ UNCHANGED <<storeVars, startReq, skipReq, leaveReq, joinReq, registryVars, serviceVars>>

\* editImage returns: the $transaction creating the Turn and updating the
\* Room from the values read before the image call
ProcessTurnCommit(r) ==
  LET req == turnReq[r]
      newImageUrl == imageCount + 1
      nextPlayer == req.nextPlayer
      newTurnNumber == req.currentTurn + 1
      isGameComplete == IsGameComplete(newTurnNumber, req.maxTurns)
  IN /\ req.pc = "editing"
     /\ Len(turns) < MaxRecords
     /\ imageCount' = newImageUrl
     /\ turns' = Append(turns, [turnNumber |-> req.currentTurn,
                                playerId |-> req.playerId,
                                prompt |-> req.cleanedPrompt,
                                inputImageUrl |-> req.currentImageUrl,
                                outputImageUrl |-> newImageUrl])
     /\ room' = [room EXCEPT
          !.currentTurn = newTurnNumber,
          !.currentPlayerId = IF isGameComplete THEN NULL ELSE nextPlayer,
          !.currentImageUrl = newImageUrl,
          !.status = IF isGameComplete THEN "COMPLETED" ELSE "IN_PROGRESS",
          !.endedAt = IF isGameComplete THEN Now ELSE @]
     /\ turnReq' = [turnReq EXCEPT ![r] = IdleTurn]
     /\ response' = Resp("processTurn", 200, "ok")
     /\ published' = IF room'.status = "COMPLETED"
                     THEN {"game:completed"} ELSE {"game:turnCompleted"}
     /\ UNCHANGED <<participants, startReq, skipReq, leaveReq, joinReq, registryVars, serviceVars>>

(***************************************************************************)
(* PUT /api/game/[roomId] (serverless turn submission) with the lib        *)
(* BananaApiService.                                                       *)
(***************************************************************************)
\* mockGenerate: the placeholder image
MockImage == -1

\* what the remote image service does with an edit request
RemoteOutcomes == {"image", "failure"}

\* lib editImage: the remote image, or the placeholder when the call fails
\* in any way (the catch returns mockGenerate)
LibEditImage(remote, fresh) == IF remote = "image" THEN fresh ELSE MockImage

\* the checks of PUT, as the response they produce (code 200: all passed)
PutTurnCheck(rm, userId, prompt) ==
  IF rm.status = "NONE" THEN Resp("processTurn", 404, "Room not found")
  ELSE IF rm.status # "IN_PROGRESS"
       THEN Resp("processTurn", 400, "Game not in progress")
  ELSE IF rm.currentPlayerId # userId
       THEN Resp("processTurn", 403, "Not your turn")
  ELSE IF ValidatedPrompts[prompt] # "valid"
       THEN Resp("processTurn", 400, ValidatedPrompts[prompt])
  ELSE IF CheckedPrompts[prompt].flagged
       THEN Resp("processTurn", 400, CheckedPrompts[prompt].reason)
  ELSE Resp("processTurn", 200, "ok")

\* read the room, validate, trigger turn:processing, call editImage
PutTurnBegin(r, userId, prompt) ==
  LET req == turnReq[r]
      check == PutTurnCheck(room, userId, prompt)
  IN /\ req.pc = "idle"
     /\ IF check.code = 200
        THEN \E list \in OrderedActive(participants) :
               /\ Len(list) > 0
               /\ turnReq' = [turnReq EXCEPT ![r] =
                    [req EXCEPT !.pc = "editing",
                                !.playerId = userId,
                                !.cleanedPrompt = CheckedPrompts[prompt].cleanedPrompt,
                                !.currentTurn = room.currentTurn,
                                !.maxTurns = room.maxTurns,
                                !.currentImageUrl = room.currentImageUrl,
                                !.nextPlayer = NextPlayer(list, userId)]]
               /\ response' = NoResponse
               /\ published' = {"turn:processing"}
        ELSE /\ UNCHANGED turnReq
             /\ response' = check
             /\ published' = {}
     /\ UNCHANGED <<storeVars, startReq, skipReq, leaveReq, joinReq, registryVars, serviceVars>>

\* editImage has returned: the transaction and the notification
PutTurnCommit(r, remote) ==
  LET req == turnReq[r]
      newImageUrl == LibEditImage(remote, imageCount + 1)
      newTurnNumber == req.currentTurn + 1
      isComplete == newTurnNumber > req.maxTurns
  IN /\ req.pc = "editing"
     /\ Len(turns) < MaxRecords
     /\ imageCount' = IF remote = "image" THEN imageCount + 1 ELSE imageCount
     /\ turns' = Append(turns, [turnNumber |-> req.currentTurn,
                                playerId |-> req.playerId,
                                prompt |-> req.cleanedPrompt,
                                inputImageUrl |-> req.currentImageUrl,
                                outputImageUrl |-> newImageUrl])
     /\ room' = [room EXCEPT
          !.currentTurn = newTurnNumber,
          !.currentPlayerId = IF isComplete THEN NULL ELSE req.nextPlayer,
          !.currentImageUrl = newImageUrl,
          !.status = IF isComplete THEN "COMPLETED" ELSE "IN_PROGRESS",
          !.endedAt = IF isComplete THEN Now ELSE @]
     /\ turnReq' = [turnReq EXCEPT ![r] = IdleTurn]
     /\ response' = Resp("processTurn", 200, "ok")
     /\ published' = IF isComplete THEN {"game:completed"} ELSE {"game:turnCompleted"}
     /\ UNCHANGED <<participants, startReq, skipReq, leaveReq, joinReq, registryVars, serviceVars>>

(***************************************************************************)
(* POST /:roomId/start  ->  GameService.startGame                          *)
(***************************************************************************)
\* what a start request carries: an uploaded image and/or a prompt
StartInputs ==
  {[hasImage |-> FALSE, prompt |-> p] : p \in GamePrompts}
    \cup {[hasImage |-> TRUE, prompt |-> p] : p \in {P_EMPTY, P_BLOCKED}}

\* the start checks without the test of the room's status
StartGameCheck_NoStatusCheck(rm, ps, userId, hasImage, prompt) ==
  IF rm.hostId # userId
  THEN Resp("startGame", 403, "Only the host can perform this action")
  ELSE IF ~hasImage /\ prompt = <<>>
       THEN Resp("startGame", 400, "Please provide either an initial image or a text prompt")
  ELSE IF Cardinality(ActiveParticipants(ps)) < 1
       THEN Resp("startGame", 400, "Need at least 1 participant to start")
  ELSE IF hasImage THEN Resp("startGame", 200, "ok")
  ELSE IF ValidatedPrompts[prompt] # "valid"
       THEN Resp("startGame", 400, ValidatedPrompts[prompt])
  ELSE IF CheckedPrompts[prompt].flagged
       THEN Resp("startGame", 400, CheckedPrompts[prompt].reason)
  ELSE Resp("startGame", 200, "ok")

\* isRoomHost, the route's test for content, then startGame's own checks
StartGameCheck(rm, ps, userId, hasImage, prompt) ==
  IF rm.hostId # userId
  THEN Resp("startGame", 403, "Only the host can perform this action")
  ELSE IF ~hasImage /\ prompt = <<>>
       THEN Resp("startGame", 400, "Please provide either an initial image or a text prompt")
  ELSE IF rm.status # "WAITING"
       THEN Resp("startGame", 400, "Game has already started or ended")
  ELSE IF Cardinality(ActiveParticipants(ps)) < 1
       THEN Resp("startGame", 400, "Need at least 1 participant to start")
  ELSE IF hasImage THEN Resp("startGame", 200, "ok")
  ELSE IF ValidatedPrompts[prompt] # "valid"
       THEN Resp("startGame", 400, ValidatedPrompts[prompt])
  ELSE IF CheckedPrompts[prompt].flagged
       THEN Resp("startGame", 400, CheckedPrompts[prompt].reason)
  ELSE Resp("startGame", 200, "ok")

\* read the room with its active participants, validate, and (without an
\* uploaded image) start the image generation; of the participants read,
\* the request keeps the first by turn order
StartGameBegin(u, in) ==
  LET check == StartGameCheck(room, participants, u, in.hasImage, in.prompt)
  IN /\ startReq.pc = "idle"
     /\ IF check.code = 200
        THEN \E list \in OrderedActive(participants) :
               /\ startReq' = [pc |-> "generating", hostId |-> u,
                               hasImage |-> in.hasImage,
                               initialPrompt |-> in.prompt,
                               cleanedPrompt |-> IF in.hasImage THEN <<>>
                                                 ELSE CheckedPrompts[in.prompt].cleanedPrompt,
                               firstPlayer |-> list[1]]
               /\ response' = NoResponse
        ELSE /\ UNCHANGED startReq
             /\ response' = check
     /\ published' = {}
     /\ UNCHANGED <<storeVars, turnReq, skipReq, leaveReq, joinReq, registryVars, serviceVars>>

\* generateImage throws: the error goes to the caller, nothing is written
StartGameGenerateFail(code) ==
  /\ startReq.pc = "generating"
  /\ ~startReq.hasImage
  /\ startReq' = IdleStart
  /\ response' = Resp("startGame", code, "image service error")
  /\ published' = {}
  /\ UNCHANGED <<storeVars, turnReq, skipReq, leaveReq, joinReq, registryVars, serviceVars>>

\* the $transaction that starts the game and records Turn 0
StartGameCommit ==
  LET imageUrl == imageCount + 1
      firstPlayer == startReq.firstPlayer
  IN /\ startReq.pc = "generating"
     /\ Len(turns) < MaxRecords
     /\ imageCount' = imageUrl
     /\ room' = [room EXCEPT !.status = "IN_PROGRESS",
                             !.currentTurn = 1,
                             !.currentPlayerId = firstPlayer,
                             !.currentImageUrl = imageUrl]
     /\ turns' = Append(turns, [turnNumber |-> 0,
                                playerId |-> startReq.hostId,
                                prompt |-> IF startReq.initialPrompt # <<>>
                                           THEN startReq.initialPrompt
                                           ELSE INITIAL_UPLOADED_IMAGE,
                                inputImageUrl |-> NoImage,
                                outputImageUrl |-> imageUrl])
     /\ startReq' = IdleStart
     /\ response' = Resp("startGame", 200, "ok")
     /\ published' = {"game:started"}
     /\ UNCHANGED <<participants, turnReq, skipReq, leaveReq, joinReq, registryVars, serviceVars>>

(***************************************************************************)
(* POST /:roomId/end  ->  GameService.endGame                              *)
(***************************************************************************)
\* an end of game that also resets the turn counter and the current image
EndGame_ResetsCounter(u) ==
  /\ IF room.status = "NONE"
     THEN /\ response' = Resp("endGame", 404, "Room not found")
          /\ published' = {}
          /\ UNCHANGED room
     ELSE IF room.hostId # u
     THEN /\ response' = Resp("endGame", 403, "Only the host can perform this action")
          /\ published' = {}
          /\ UNCHANGED room
     ELSE IF room.status = "COMPLETED" \/ room.status = "CANCELLED"
     THEN /\ response' = Resp("endGame", 400, "Game has already ended")
          /\ published' = {}
          /\ UNCHANGED room
     ELSE /\ room' = [room EXCEPT !.status = "COMPLETED",
                                  !.endedAt = Now,
                                  !.currentPlayerId = NULL,
                                  !.currentTurn = 0,
                                  !.currentImageUrl = NoImage]
          /\ response' = Resp("endGame", 200, "ok")
          /\ published' = {"game:completed"}
  /\ UNCHANGED <<participants, turns, imageCount, reqVars, registryVars, serviceVars>>

EndGame(u) ==
  /\ IF room.status = "NONE"
     THEN /\ response' = Resp("endGame", 404, "Room not found")
          /\ published' = {}
          /\ UNCHANGED room
     ELSE IF room.hostId # u
     THEN /\ response' = Resp("endGame", 403, "Only the host can perform this action")
          /\ published' = {}
          /\ UNCHANGED room
     ELSE IF room.status = "COMPLETED" \/ room.status = "CANCELLED"
     THEN /\ response' = Resp("endGame", 400, "Game has already ended")
          /\ published' = {}
          /\ UNCHANGED room
     ELSE /\ room' = [room EXCEPT !.status = "COMPLETED",
                                  !.endedAt = Now,
                                  !.currentPlayerId = NULL]
          /\ response' = Resp("endGame", 200, "ok")
          /\ published' = {"game:completed"}
  /\ UNCHANGED <<participants, turns, imageCount, reqVars, registryVars, serviceVars>>

\* PATCH /api/game/[roomId] (serverless end game): the host check, then the
\* update, whatever the room's status
EndGamePatch(u) ==
  /\ IF room.status = "NONE"
     THEN /\ response' = Resp("endGame", 404, "Room not found")
          /\ published' = {}
          /\ UNCHANGED room
     ELSE IF room.hostId # u
     THEN /\ response' = Resp("endGame", 403, "Only the host can end the game")
          /\ published' = {}
          /\ UNCHANGED room
     ELSE /\ room' = [room EXCEPT !.status = "COMPLETED",
                                  !.endedAt = Now,
                                  !.currentPlayerId = NULL]
          /\ response' = Resp("endGame", 200, "ok")
          /\ published' = {"game:completed"}
  /\ UNCHANGED <<participants, turns, imageCount, reqVars, registryVars, serviceVars>>

(***************************************************************************)
(* POST /:roomId/skip                                                      *)
(***************************************************************************)
\* getGameState and the choice of the next player
SkipBegin(u) ==
  /\ skipReq.pc = "idle"
  /\ IF room.hostId # u
     THEN /\ response' = Resp("skipTurn", 403, "Only the host can perform this action")
          /\ UNCHANGED skipReq
     ELSE IF room.status # "IN_PROGRESS"
     THEN /\ response' = Resp("skipTurn", 400, "Game is not in progress")
          /\ UNCHANGED skipReq
     ELSE \E list \in OrderedActive(participants) :
            /\ skipReq' = [pc |-> "write",
                           skippedPlayerId |-> room.currentPlayerId,
                           nextPlayer |-> NextPlayer(list, room.currentPlayerId)]
            /\ response' = NoResponse
  /\ published' = {}
  /\ UNCHANGED <<storeVars, turnReq, startReq, leaveReq, joinReq, registryVars, serviceVars>>

\* gameRoom.update({ currentPlayerId: nextPlayer.id })
SkipWrite ==
  /\ skipReq.pc = "write"
  /\ room' = [room EXCEPT !.currentPlayerId = skipReq.nextPlayer]
  /\ skipReq' = IdleSkip
  /\ response' = Resp("skipTurn", 200, "ok")
  /\ published' = {"game:turnSkipped"}
  /\ UNCHANGED <<participants, turns, imageCount, turnReq, startReq, leaveReq,
                 joinReq, registryVars, serviceVars>>

(***************************************************************************)
(* POST /:roomId/leave                                                     *)
(***************************************************************************)
\* read the room and the caller's row, mark the row inactive
LeaveBegin(u) ==
  /\ leaveReq.pc = "idle"
  /\ IF room.status = "NONE"
     THEN /\ response' = Resp("leaveRoom", 404, "Room not found")
          /\ published' = {}
          /\ UNCHANGED <<participants, leaveReq>>
     ELSE IF room.hostId = u
     THEN /\ response' = Resp("leaveRoom", 400, "Host cannot leave. End the game instead.")
          /\ published' = {}
          /\ UNCHANGED <<participants, leaveReq>>
     ELSE IF ~participants[u].exists \/ ~participants[u].isActive
     THEN /\ response' = Resp("leaveRoom", 400, "You are not in this room")
          /\ published' = {}
          /\ UNCHANGED <<participants, leaveReq>>
     ELSE /\ participants' = [participants EXCEPT ![u].isActive = FALSE]
          /\ IF room.status = "IN_PROGRESS" /\ room.currentPlayerId = u
             THEN /\ leaveReq' = [pc |-> "reassign", userId |-> u]
                  /\ response' = NoResponse
                  /\ published' = {}
             ELSE /\ UNCHANGED leaveReq
                  /\ response' = Resp("leaveRoom", 200, "ok")
                  /\ published' = {"room:playerLeft"}
  /\ UNCHANGED <<room, turns, imageCount, turnReq, startReq, skipReq, joinReq,
                 registryVars, serviceVars>>

\* it was the leaver's turn: hand the turn to the first active participant
LeaveReassign ==
  /\ leaveReq.pc = "reassign"
  /\ \E list \in OrderedActive(participants) :
       room' = IF Len(list) > 0
               THEN [room EXCEPT !.currentPlayerId = list[1]]
               ELSE room
  /\ leaveReq' = IdleLeave
  /\ response' = Resp("leaveRoom", 200, "ok")
  /\ published' = {"room:playerLeft"}
  /\ UNCHANGED <<participants, turns, imageCount, turnReq, startReq, skipReq,
                 joinReq, registryVars, serviceVars>>

\* the serverless leave without the host test
LeaveDelete_NoHostCheck(u) ==
  /\ IF room.status = "NONE"
     THEN /\ response' = Resp("leaveRoom", 404, "Room not found")
          /\ published' = {}
          /\ UNCHANGED participants
     ELSE IF ~participants[u].exists
     THEN /\ response' = Resp("leaveRoom", 500, "Failed to leave room")
          /\ published' = {}
          /\ UNCHANGED participants
     ELSE /\ participants' = [participants EXCEPT ![u].isActive = FALSE]
          /\ response' = Resp("leaveRoom", 200, "ok")
          /\ published' = {"room:playerLeft"}
  /\ UNCHANGED <<room, turns, imageCount, reqVars, registryVars, serviceVars>>

\* DELETE /api/rooms/[roomId] (serverless leave): the caller's row is marked
\* inactive (the update throws when there is no row); the room is not touched
LeaveDelete(u) ==
  /\ IF room.status = "NONE"
     THEN /\ response' = Resp("leaveRoom", 404, "Room not found")
          /\ published' = {}
          /\ UNCHANGED participants
     ELSE IF room.hostId = u
     THEN /\ response' = Resp("leaveRoom", 400, "Host cannot leave. End the game instead.")
          /\ published' = {}
          /\ UNCHANGED participants
     ELSE IF ~participants[u].exists
     THEN /\ response' = Resp("leaveRoom", 500, "Failed to leave room")
          /\ published' = {}
          /\ UNCHANGED participants
     ELSE /\ participants' = [participants EXCEPT ![u].isActive = FALSE]
          /\ response' = Resp("leaveRoom", 200, "ok")
          /\ published' = {"room:playerLeft"}
  /\ UNCHANGED <<room, turns, imageCount, reqVars, registryVars, serviceVars>>

(***************************************************************************)
(* POST /:roomId/join                                                      *)
(***************************************************************************)
\* the join that admits one participant more than maxPlayers
JoinBegin_FullOffByOne(u) ==
  /\ joinReq.pc = "idle"
  /\ IF room.status = "NONE"
     THEN /\ response' = Resp("joinRoom", 404, "Room not found")
          /\ UNCHANGED joinReq
     ELSE IF room.status # "WAITING"
     THEN /\ response' = Resp("joinRoom", 400, "Cannot join a game in progress or completed")
          /\ UNCHANGED joinReq
     ELSE IF Cardinality(ActiveParticipants(participants)) > room.maxPlayers
     THEN /\ response' = Resp("joinRoom", 400, "Room is full")
          /\ UNCHANGED joinReq
     ELSE IF participants[u].exists /\ participants[u].isActive
     THEN /\ response' = Resp("joinRoom", 400, "You are already in this room")
          /\ UNCHANGED joinReq
     ELSE /\ joinReq' = [pc |-> "write", userId |-> u,
                         existing |-> participants[u].exists,
                         turnOrder |-> MaxTurnOrder(participants) + 1]
          /\ response' = NoResponse
  /\ published' = {}
  /\ UNCHANGED <<storeVars, turnReq, startReq, skipReq, leaveReq, registryVars, serviceVars>>

\* read the room with its active participants and the caller's row
JoinBegin(u) ==
  /\ joinReq.pc = "idle"
  /\ IF room.status = "NONE"
     THEN /\ response' = Resp("joinRoom", 404, "Room not found")
          /\ UNCHANGED joinReq
     ELSE IF room.status # "WAITING"
     THEN /\ response' = Resp("joinRoom", 400, "Cannot join a game in progress or completed")
          /\ UNCHANGED joinReq
     ELSE IF Cardinality(ActiveParticipants(participants)) >= room.maxPlayers
     THEN /\ response' = Resp("joinRoom", 400, "Room is full")
          /\ UNCHANGED joinReq
     ELSE IF participants[u].exists /\ participants[u].isActive
     THEN /\ response' = Resp("joinRoom", 400, "You are already in this room")
          /\ UNCHANGED joinReq
     ELSE /\ joinReq' = [pc |-> "write", userId |-> u,
                         existing |-> participants[u].exists,
                         turnOrder |-> MaxTurnOrder(participants) + 1]
          /\ response' = NoResponse
  /\ published' = {}
  /\ UNCHANGED <<storeVars, turnReq, startReq, skipReq, leaveReq, registryVars, serviceVars>>

\* reactivate the caller's old row, or create a row with the next turn order
JoinWrite ==
  LET u == joinReq.userId
  IN /\ joinReq.pc = "write"
     /\ IF joinReq.existing
        THEN /\ participants' = [participants EXCEPT ![u].isActive = TRUE]
             /\ response' = Resp("joinRoom", 200, "ok")
             /\ published' = {"room:playerJoined"}
        ELSE IF participants[u].exists
        THEN \* unique (roomId, userId) key
             /\ UNCHANGED participants
             /\ response' = Resp("joinRoom", 400, "Database operation failed")
             /\ published' = {}
        ELSE /\ participants' = [participants EXCEPT ![u] =
                  [exists |-> TRUE, turnOrder |-> joinReq.turnOrder,
                   isActive |-> TRUE]]
             /\ response' = Resp("joinRoom", 200, "ok")
             /\ published' = {"room:playerJoined"}
     /\ joinReq' = IdleJoin
     /\ UNCHANGED <<room, turns, imageCount, turnReq, startReq, skipReq,
                    leaveReq, registryVars, serviceVars>>

(***************************************************************************)
(* POST /  (create room)                                                   *)
(***************************************************************************)
Codes == 1..NumCodes

\* the values create requests carry for maxPlayers and maxTurns
PlayerLimitInputs == {1, 2, 21}
TurnLimitInputs == {0, 1, 51}

\* gameRoom.findUnique({ where: { code } })
FindByCode(rooms, code) == {i \in DOMAIN rooms : rooms[i].code = code}

NewRoom(code, userId, maxPlayers, maxTurns) ==
  [code |-> code, hostId |-> userId, status |-> "WAITING",
   maxPlayers |-> maxPlayers, maxTurns |-> maxTurns,
   participants |-> {[userId |-> userId, turnOrder |-> 0, isActive |-> TRUE]}]

\* input validation
CreateRoomBegin(r, u, maxPlayers, maxTurns) ==
  /\ createReq[r].pc = "idle"
  /\ IF maxPlayers < MinPlayers \/ maxPlayers > MaxPlayers
     THEN /\ response' = Resp("createRoom", 400, "Max players must be between 2 and 20")
          /\ UNCHANGED createReq
     ELSE IF maxTurns < MinTurns \/ maxTurns > MaxTurns
     THEN /\ response' = Resp("createRoom", 400, "Max turns must be between 1 and 50")
          /\ UNCHANGED createReq
     ELSE /\ createReq' = [createReq EXCEPT ![r] =
                [pc |-> "draw", userId |-> u, maxPlayers |-> maxPlayers,
                 maxTurns |-> maxTurns, attempts |-> 0, code |-> 0]]
          /\ response' = NoResponse
  /\ published' = {}
  /\ UNCHANGED <<gameVars, gameRooms, serviceVars>>

\* one iteration of the do-while: draw a code and look it up
CreateRoomDraw(r, code) ==
  LET req == createReq[r]
  IN /\ req.pc = "draw"
     /\ IF FindByCode(gameRooms, code) = {}
        THEN /\ createReq' = [createReq EXCEPT ![r].pc = "create", ![r].code = code]
             /\ response' = NoResponse
        ELSE IF req.attempts + 1 < MaxCodeAttempts
        THEN /\ createReq' = [createReq EXCEPT ![r].attempts = @ + 1]
             /\ response' = NoResponse
        ELSE /\ createReq' = [createReq EXCEPT ![r] = IdleCreate]
             /\ response' = Resp("createRoom", 500, "Failed to generate unique room code")
     /\ published' = {}
     /\ UNCHANGED <<gameVars, gameRooms, serviceVars>>

\* the unique index on GameRoom.code rejects a second row with the code
CodeTaken(rooms, code) == FindByCode(rooms, code) # {}

\* gameRoom.create with the host as first participant
CreateRoomInsert(r) ==
  LET req == createReq[r]
  IN /\ req.pc = "create"
     /\ IF CodeTaken(gameRooms, req.code)
        THEN /\ UNCHANGED gameRooms
             /\ response' = Resp("createRoom", 400, "Database operation failed")
        ELSE /\ gameRooms' = Append(gameRooms,
                  NewRoom(req.code, req.userId, req.maxPlayers, req.maxTurns))
             /\ response' = Resp("createRoom", 201, "ok")
     /\ createReq' = [createReq EXCEPT ![r] = IdleCreate]
     /\ published' = {}
     /\ UNCHANGED <<gameVars, serviceVars>>

(***************************************************************************)
(* Specification of one room's game session: the room has just been        *)
(* created by its host, every request handler runs concurrently.           *)
(***************************************************************************)
\* the maxPlayers values the room under study is created with
PlayerLimits == {2, 3}
GamePlayerLimits == {2}

\* the maxTurns values the room under study is created with
TurnLimits == {1, 2}

HostRow == [exists |-> TRUE, turnOrder |-> 0, isActive |-> TRUE]

CreatedRoom(hostId, maxPlayers, maxTurns) ==
  [status |-> "WAITING", hostId |-> hostId, maxPlayers |-> maxPlayers,
   maxTurns |-> maxTurns, currentTurn |-> 0, currentPlayerId |-> NULL,
   currentImageUrl |-> NoImage, endedAt |-> NULL]

(***************************************************************************)
(* PATCH /:roomId (room settings, host only)                               *)
(***************************************************************************)
IdleSettings == [pc |-> "idle", maxPlayers |-> 0, maxTurns |-> 0]

\* the maxPlayers and maxTurns a settings request carries (0: field absent)
SettingsPlayerInputs == {0, 2, 21}
SettingsTurnInputs == {0, 1, 51}

\* isRoomHost, the room read and the test of the status
UpdateSettingsBegin(u, maxPlayers, maxTurns) ==
  /\ settingsReq.pc = "idle"
  /\ IF room.status = "NONE"
     THEN /\ response' = Resp("updateRoom", 404, "Room not found")
          /\ UNCHANGED settingsReq
     ELSE IF room.hostId # u
     THEN /\ response' = Resp("updateRoom", 403, "Only the host can perform this action")
          /\ UNCHANGED settingsReq
     ELSE IF room.status # "WAITING"
     THEN /\ response' = Resp("updateRoom", 400,
                              "Cannot update room settings after game has started")
          /\ UNCHANGED settingsReq
     ELSE /\ settingsReq' = [pc |-> "write", maxPlayers |-> maxPlayers,
                             maxTurns |-> maxTurns]
          /\ response' = NoResponse
  /\ published' = {}
  /\ UNCHANGED <<storeVars, reqVars, registryVars, enabled, lastIndex,
                 moderationLog, checkCalls, pollReq>>

\* gameRoom.update with the fields present in the body
UpdateSettingsWrite ==
  /\ settingsReq.pc = "write"
  /\ room' = [room EXCEPT
       !.maxPlayers = IF settingsReq.maxPlayers # 0 THEN settingsReq.maxPlayers ELSE @,
       !.maxTurns = IF settingsReq.maxTurns # 0 THEN settingsReq.maxTurns ELSE @]
  /\ settingsReq' = IdleSettings
  /\ response' = Resp("updateRoom", 200, "ok")
  /\ published' = {"room:updated"}
  /\ UNCHANGED <<participants, turns, imageCount, reqVars, registryVars, enabled,
                 lastIndex, moderationLog, checkCalls, pollReq>>

(***************************************************************************)
(* ModerationService as a service with state: the regex objects, the       *)
(* enabled flag and the ModerationLog table.                               *)
(***************************************************************************)
\* pattern.test(s) on a regex carrying the g flag: the search starts at
\* lastIndex, which a match moves forward and a failure resets
RegExpTest_Global(groups, s, li) ==
  LET hits == {i \in (li + 1)..Len(s) :
                 WordBoundaryAt(s, i) /\ MatchGroupsAt(s, i, groups, 1)}
  IN IF hits = {}
     THEN [found |-> FALSE, lastIndex |-> 0]
     ELSE [found |-> TRUE, lastIndex |-> CHOOSE i \in hits : \A j \in hits : i <= j]

\* pattern.test(s) on the regexes of BLOCKED_PATTERNS (flag i only): the
\* search covers the whole string and lastIndex is neither read nor written
RegExpTest(groups, s, li) ==
  [found |-> PatternTest(groups, s), lastIndex |-> li]

\* for (const pattern of BLOCKED_PATTERNS) if (pattern.test(...)): the
\* patterns are tested in order up to the first that matches
PatternScan(s, li) ==
  LET t == [k \in DOMAIN BLOCKED_PATTERNS |->
              RegExpTest(BLOCKED_PATTERNS[k], s, li[k])]
      hit == {k \in DOMAIN BLOCKED_PATTERNS : t[k].found}
      first == IF hit = {} THEN Len(BLOCKED_PATTERNS)
               ELSE CHOOSE k \in hit : \A j \in hit : k <= j
  IN [found |-> hit # {},
      lastIndex |-> [k \in DOMAIN BLOCKED_PATTERNS |->
                       IF k <= first THEN t[k].lastIndex ELSE li[k]]]

\* checkPrompt run against the regex objects in state li
CheckPromptResult(prompt, li) ==
  LET normalizedPrompt == Trim(ToLowerCase(prompt))
      word == FirstBlockedWord(normalizedPrompt)
      scan == PatternScan(normalizedPrompt, li)
  IN IF word # <<>>
     THEN [result |-> [flagged |-> TRUE, reason |-> "prohibited content",
                       word |-> word, cleanedPrompt |-> prompt],
           lastIndex |-> li]
     ELSE IF scan.found
     THEN [result |-> [flagged |-> TRUE, reason |-> "harmful content pattern",
                       word |-> <<>>, cleanedPrompt |-> prompt],
           lastIndex |-> scan.lastIndex]
     ELSE [result |-> [flagged |-> FALSE, reason |-> NULL, word |-> <<>>,
                       cleanedPrompt |->
                         Substring(Trim(CollapseWhitespace(prompt)), MaxPromptLength)],
           lastIndex |-> scan.lastIndex]

\* logModeration: nothing when the service is not enabled; a failing create
\* is caught and logged
LogModeration(log, prompt, flagged, reason, word, logWorks) ==
  IF ~enabled THEN log
  ELSE IF logWorks
       THEN Append(log, [prompt |-> Substring(prompt, LogPromptLength),
                         flagged |-> flagged, reason |-> reason, word |-> word])
       ELSE log

\* one call of checkPrompt(prompt, userId, roomId)
CheckPrompt(prompt, logWorks) ==
  LET c == CheckPromptResult(prompt, lastIndex)
  IN /\ Len(checkCalls) < MaxChecks
     /\ lastIndex' = c.lastIndex
     /\ checkCalls' = Append(checkCalls, [prompt |-> prompt, result |-> c.result,
                                         logWorks |-> logWorks])
     /\ moderationLog' = LogModeration(moderationLog, prompt, c.result.flagged,
                                       c.result.reason, c.result.word, logWorks)
     /\ UNCHANGED <<enabled, pollReq, settingsReq, gameVars, outVars, registryVars>>

(***************************************************************************)
(* BananaApiService.pollForResult, of the backend and of the serverless    *)
(* lib.                                                                    *)
(***************************************************************************)
Adapters == {"backend", "lib"}

\* what one poll of the check URL brings: an image with message 'success',
\* an error payload, neither (still processing), or a failed HTTP call
PollOutcomes == {"success", "error", "processing", "network"}

IdlePoll == [pc |-> "idle", impl |-> "none", attempt |-> 0, polls |-> 0,
             last |-> "none"]

\* the first request returned a job identifier
PollStart(impl) ==
  /\ pollReq.pc # "polling"
  /\ pollReq' = [pc |-> "polling", impl |-> impl, attempt |-> 0, polls |-> 0,
                 last |-> "none"]
  /\ UNCHANGED <<enabled, lastIndex, moderationLog, checkCalls, settingsReq,
                 gameVars, outVars, registryVars>>

\* one iteration of the for loop
PollAttempt(outcome) ==
  /\ pollReq.pc = "polling"
  /\ pollReq.attempt < PollMaxAttempts
  /\ pollReq' =
       IF outcome = "success"
       THEN [pollReq EXCEPT !.pc = "returned", !.polls = @ + 1, !.last = outcome]
       ELSE IF outcome = "error" /\ pollReq.impl = "backend"
       THEN [pollReq EXCEPT !.pc = "failed", !.polls = @ + 1, !.last = outcome]
       ELSE [pollReq EXCEPT !.attempt = @ + 1, !.polls = @ + 1, !.last = outcome]
  /\ UNCHANGED <<enabled, lastIndex, moderationLog, checkCalls, settingsReq,
                 gameVars, outVars, registryVars>>

\* the loop ends without a result
PollTimeout ==
  /\ pollReq.pc = "polling"
  /\ pollReq.attempt >= PollMaxAttempts
  /\ pollReq' = [pollReq EXCEPT !.pc = "timeout"]
  /\ UNCHANGED <<enabled, lastIndex, moderationLog, checkCalls, settingsReq,
                 gameVars, outVars, registryVars>>

\* no moderation call made, no poll running; the game handlers run with the
\* moderation log enabled
IdleServices ==
  /\ enabled = TRUE
  /\ lastIndex = [k \in DOMAIN BLOCKED_PATTERNS |-> 0]
  /\ moderationLog = <<>>
  /\ checkCalls = <<>>
  /\ pollReq = IdlePoll
  /\ settingsReq = IdleSettings

IdleRequests ==
  /\ turnReq = [r \in TurnSlots |-> IdleTurn]
  /\ startReq = IdleStart
  /\ skipReq = IdleSkip
  /\ leaveReq = IdleLeave
  /\ joinReq = IdleJoin
  /\ createReq = [r \in CreateSlots |-> IdleCreate]
  /\ response = NoResponse
  /\ published = {}

Init ==
  /\ \E h \in Hosts, mp \in GamePlayerLimits, mt \in TurnLimits :
       /\ room = CreatedRoom(h, mp, mt)
       /\ participants = [u \in Users |-> IF u = h THEN HostRow ELSE NoRow]
       /\ gameRooms = <<NewRoom(1, h, mp, mt)>>
  /\ turns = <<>>
  /\ imageCount = 0
  /\ IdleRequests
  /\ IdleServices

\* the users that join the room under study ("b" stays outside)
Joiners == {"a"}

\* a new turn request takes the first free request slot
FreeSlot(r) == turnReq[r].pc = "idle" /\ \A q \in TurnSlots : q < r => turnReq[q].pc # "idle"

\* skip, leave and join are fast: each runs to completion before another
\* request is served, while image calls stay in flight across requests
FastIdle == skipReq.pc = "idle" /\ leaveReq.pc = "idle" /\ joinReq.pc = "idle"

Next ==
  \/ \E r \in TurnSlots, u \in Users, p \in GamePrompts :
       FastIdle /\ FreeSlot(r) /\ ProcessTurnBegin(r, u, p)
  \/ \E r \in TurnSlots, c \in ImageErrors : FastIdle /\ ProcessTurnEditFail(r, c)
  \/ \E r \in TurnSlots : FastIdle /\ ProcessTurnCommit(r)
  \/ \E u \in Users, in \in StartInputs : FastIdle /\ StartGameBegin(u, in)
  \/ \E c \in ImageErrors : FastIdle /\ StartGameGenerateFail(c)
  \/ FastIdle /\ StartGameCommit
  \/ \E u \in Users : FastIdle /\ EndGame(u)
  \/ \E u \in Users : FastIdle /\ SkipBegin(u)
  \/ SkipWrite
  \/ \E u \in Users : FastIdle /\ LeaveBegin(u)
  \/ LeaveReassign
  \/ \E u \in Joiners : FastIdle /\ JoinBegin(u)
  \/ JoinWrite

Spec == Init /\ [][Next]_vars

(***************************************************************************)
(* Specification of the room registry: concurrent create-room requests      *)
(* against a table that already holds some rooms.                          *)
(***************************************************************************)
RECURSIVE ExistingRooms(_)
ExistingRooms(S) ==
  IF S = {} THEN <<>>
  ELSE LET c == CHOOSE x \in S : \A y \in S : x <= y
       IN <<NewRoom(c, "h", DefaultMaxPlayers, DefaultMaxTurns)>>
            \o ExistingRooms(S \ {c})

InitCreate ==
  /\ room = NoRoom
  /\ participants = [u \in Users |-> NoRow]
  /\ turns = <<>>
  /\ imageCount = 0
  /\ \E S \in SUBSET Codes : gameRooms = ExistingRooms(S)
  /\ IdleRequests
  /\ IdleServices

NextCreate ==
  \/ \E r \in CreateSlots, u \in Users, mp \in PlayerLimitInputs,
        mt \in TurnLimitInputs : CreateRoomBegin(r, u, mp, mt)
  \/ \E r \in CreateSlots, c \in Codes : CreateRoomDraw(r, c)
  \/ \E r \in CreateSlots : CreateRoomInsert(r)

SpecCreate == InitCreate /\ [][NextCreate]_vars

(***************************************************************************)
(* Specification of a room's lobby: the room is WAITING and any user joins, *)
(* leaves and joins again, until the host ends the game; or the room id    *)
(* names no room at all.                                                   *)
(***************************************************************************)
InitLobby ==
  /\ \/ \E h \in Hosts, mp \in PlayerLimits, mt \in TurnLimits :
          /\ room = CreatedRoom(h, mp, mt)
          /\ participants = [u \in Users |-> IF u = h THEN HostRow ELSE NoRow]
          /\ gameRooms = <<NewRoom(1, h, mp, mt)>>
     \/ /\ room = NoRoom
        /\ participants = [u \in Users |-> NoRow]
        /\ gameRooms = <<>>
  /\ turns = <<>>
  /\ imageCount = 0
  /\ IdleRequests
  /\ IdleServices

NextLobby ==
  \/ \E u \in Users : JoinBegin(u)
  \/ JoinWrite
  \/ \E u \in Users : LeaveBegin(u)
  \/ \E u \in Users : LeaveDelete(u)
  \/ \E u \in Users : EndGame(u)

SpecLobby == InitLobby /\ [][NextLobby]_vars

(***************************************************************************)
(* Specification of a started game without image calls in flight: the      *)
(* handlers that skip, leave and end, of both back ends, each split at its  *)
(* awaits and freely interleaved.                                          *)
(***************************************************************************)
\* the room after the host and two more users joined and the host started
\* the game with an uploaded image
StartedRoom(hostId, maxTurns) ==
  [CreatedRoom(hostId, 3, maxTurns) EXCEPT !.status = "IN_PROGRESS",
                                            !.currentTurn = 1,
                                            !.currentPlayerId = hostId,
                                            !.currentImageUrl = 1]

InitSession ==
  /\ \E h \in Hosts, mt \in TurnLimits :
       /\ room = StartedRoom(h, mt)
       /\ participants = [u \in Users |->
             [exists |-> TRUE, isActive |-> TRUE,
              turnOrder |-> IF u = h THEN 0 ELSE IF u = "a" THEN 1 ELSE 2]]
       /\ turns = <<[turnNumber |-> 0, playerId |-> h,
                     prompt |-> INITIAL_UPLOADED_IMAGE,
                     inputImageUrl |-> NoImage, outputImageUrl |-> 1]>>
       /\ gameRooms = <<NewRoom(1, h, 3, mt)>>
  /\ imageCount = 1
  /\ IdleRequests
  /\ IdleServices

NextSession ==
  \/ \E u \in Users : SkipBegin(u)
  \/ SkipWrite
  \/ \E u \in Users : LeaveBegin(u)
  \/ LeaveReassign
  \/ \E u \in Users : LeaveDelete(u)
  \/ \E u \in Users : EndGame(u)
  \/ \E u \in Users : EndGamePatch(u)

SpecSession == InitSession /\ [][NextSession]_vars

(***************************************************************************)
(* Specification of a started game played to its end: one turn request at  *)
(* a time, every image edit succeeds, players leave, the host skips and    *)
(* late comers try to join. Handlers that have begun run on; the current   *)
(* actor, whenever a valid submission of theirs would be accepted again    *)
(* and again, eventually makes one.                                        *)
(***************************************************************************)
\* the current actor submits a prompt that passes every check
SubmitByCurrentActor ==
  \E u \in Users :
    /\ u = room.currentPlayerId
    /\ ProcessTurnBegin(1, u, P_OK)
    /\ turnReq'[1].pc = "editing"

NextFinish ==
  \/ \E u \in Users : ProcessTurnBegin(1, u, P_OK)
  \/ ProcessTurnCommit(1)
  \/ \E u \in Users : LeaveBegin(u)
  \/ LeaveReassign
  \/ \E u \in Users : SkipBegin(u)
  \/ SkipWrite
  \/ \E u \in Users : JoinBegin(u)

SpecFinish ==
  /\ InitSession
  /\ [][NextFinish]_vars
  /\ SF_vars(SubmitByCurrentActor)
  /\ WF_vars(ProcessTurnCommit(1))
  /\ WF_vars(LeaveReassign)
  /\ WF_vars(SkipWrite)

(***************************************************************************)
(* Specification of a room's settings: in the lobby users join and leave,  *)
(* the host updates the settings and starts the game with an uploaded      *)
(* image.                                                                  *)
(***************************************************************************)
UploadStart == [hasImage |-> TRUE, prompt |-> P_EMPTY]

NextSettings ==
  \/ \E u \in Users : JoinBegin(u)
  \/ JoinWrite
  \/ \E u \in Users : LeaveBegin(u)
  \/ \E u \in Users, mp \in SettingsPlayerInputs, mt \in SettingsTurnInputs :
       UpdateSettingsBegin(u, mp, mt)
  \/ UpdateSettingsWrite
  \/ \E u \in Users : StartGameBegin(u, UploadStart)
  \/ StartGameCommit

SpecSettings == InitLobby /\ [][NextSettings]_vars

(***************************************************************************)
(* Specification of a started game on the serverless back end: turn        *)
(* submissions with the remote image service working or failing, leaves    *)
(* and the end of the game.                                                *)
(***************************************************************************)
NextServerless ==
  \/ \E r \in TurnSlots, u \in Users, p \in GamePrompts :
       FreeSlot(r) /\ PutTurnBegin(r, u, p)
  \/ \E r \in TurnSlots, remote \in RemoteOutcomes : PutTurnCommit(r, remote)
  \/ \E u \in Users : LeaveDelete(u)
  \/ \E u \in Users : EndGamePatch(u)

SpecServerless == InitSession /\ [][NextServerless]_vars

(***************************************************************************)
(* Specification of the moderation service: a series of checkPrompt calls  *)
(* against one service object, with the log enabled or not and each log    *)
(* write working or failing.                                               *)
(***************************************************************************)
NoGame ==
  /\ room = NoRoom
  /\ participants = [u \in Users |-> NoRow]
  /\ turns = <<>>
  /\ imageCount = 0
  /\ gameRooms = <<>>
  /\ IdleRequests

InitModeration ==
  /\ NoGame
  /\ enabled \in BOOLEAN
  /\ lastIndex = [k \in DOMAIN BLOCKED_PATTERNS |-> 0]
  /\ moderationLog = <<>>
  /\ checkCalls = <<>>
  /\ pollReq = IdlePoll
  /\ settingsReq = IdleSettings

NextModeration ==
  \E p \in Prompts, logWorks \in BOOLEAN : CheckPrompt(p, logWorks)

SpecModeration == InitModeration /\ [][NextModeration]_vars

(***************************************************************************)
(* Specification of the image adapter's polling loop.                      *)
(***************************************************************************)
InitPoll ==
  /\ NoGame
  /\ IdleServices

NextPoll ==
  \/ \E impl \in Adapters : PollStart(impl)
  \/ \E o \in PollOutcomes : PollAttempt(o)
  \/ PollTimeout

SpecPoll == InitPoll /\ [][NextPoll]_vars

(***************************************************************************)
(* Properties.                                                             *)
(***************************************************************************)
\* the turn numbers of the Turn rows written so far
TurnNumbers == {turns[i].turnNumber : i \in DOMAIN turns}

\* each turn number was written once
NoRepeatedTurnNumber ==
  \A i, j \in DOMAIN turns : turns[i].turnNumber = turns[j].turnNumber => i = j

\* C1: for every turn number n, at most one processTurn commit creates the
\* Turn row numbered n, also when several processTurn requests of the room
\* are in flight at once.
C1_OneCommitPerTurnNumber ==
  \A i, j \in DOMAIN turns :
     (turns[i].turnNumber >= 1 /\ turns[i].turnNumber = turns[j].turnNumber) => i = j

\* C2: the status of a room never reverses: once COMPLETED (or CANCELLED) a
\* room never becomes IN_PROGRESS or WAITING again, whatever the interleaving
\* of startGame, processTurn and endGame.
C2_StatusNeverReverses ==
  [][(room.status \in {"COMPLETED", "CANCELLED"} => room'.status = room.status)
     /\ (room.status = "IN_PROGRESS" => room'.status # "WAITING")]_vars

\* C3: when no join, leave or skip request is half-way, an IN_PROGRESS room's
\* currentPlayerId is the user of an active participant, and a WAITING,
\* COMPLETED or CANCELLED room's currentPlayerId is null.
C3_CurrentPlayerValid ==
  FastIdle =>
    IF room.status = "IN_PROGRESS"
    THEN room.currentPlayerId \in ActiveParticipants(participants)
    ELSE room.currentPlayerId = NULL

\* C4: a processTurn whose image edit fails leaves the room's currentTurn,
\* currentPlayerId, currentImageUrl and status as they were and creates no
\* Turn row.
C4_EditFailureWritesNothing ==
  [][(response'.op = "processTurn" /\ response'.error = "image service error")
       => /\ room'.currentTurn = room.currentTurn
          /\ room'.currentPlayerId = room.currentPlayerId
          /\ room'.currentImageUrl = room.currentImageUrl
          /\ room'.status = room.status
          /\ turns' = turns]_vars

\* C4 witness: an image edit has just failed in a started game
C4_Witness ==
  /\ response.op = "processTurn"
  /\ response.error = "image service error"
  /\ room.status = "IN_PROGRESS"
  /\ Len(turns) >= 1

\* C5: the turn numbers of a COMPLETED room are exactly 0, 1, ..., N, without
\* gap or repeat, whichever way the room was completed.
C5_CompletedTurnsContiguous ==
  room.status = "COMPLETED" =>
    /\ NoRepeatedTurnNumber
    /\ TurnNumbers = 0..(Len(turns) - 1)

\* C6: in a started room the recorded turn numbers are exactly
\* 0..currentTurn-1, each once.
C6_TurnsMatchCounter ==
  room.status # "WAITING" \/ turns # <<>> =>
    /\ NoRepeatedTurnNumber
    /\ TurnNumbers = 0..(room.currentTurn - 1)

\* a step that serves the turn request of user u with prompt p (such a step
\* answers the request or announces turn:processing)
TurnRequestBy(u, p) ==
  /\ response'.op = "processTurn" \/ published' = {"turn:processing"}
  /\ \E r \in TurnSlots : ProcessTurnBegin(r, u, p)

\* the step wrote nothing and emitted no notification
NoWriteNoNotification ==
  /\ UNCHANGED <<room, participants, turns, imageCount>>
  /\ published' = {}

\* C7 as stated, for the requests that carry a prompt: a turn request by a
\* user other than room.currentPlayerId fails with 403 in every room state,
\* writing nothing and emitting no notification.
C7_AlwaysForbidden ==
  [][\A u \in Users, p \in GamePrompts \ {P_EMPTY} :
        (room.currentPlayerId # u /\ TurnRequestBy(u, p))
          => response'.code = 403 /\ NoWriteNoNotification]_vars

\* C7 amended: a turn request by a user other than room.currentPlayerId always
\* fails, writing nothing and emitting no notification; it fails with 403 when
\* the caller is no active participant, or when a prompt is given and the room
\* is IN_PROGRESS, and with 400 in the other cases (no prompt, or a room that
\* is not IN_PROGRESS).
C7_MismatchRejected ==
  [][\A u \in Users, p \in GamePrompts :
        (room.currentPlayerId # u /\ TurnRequestBy(u, p))
          => /\ NoWriteNoNotification
             /\ UNCHANGED turnReq
             /\ response'.code =
                  IF u \notin ActiveParticipants(participants) THEN 403
                  ELSE IF p = <<>> THEN 400
                  ELSE IF room.status # "IN_PROGRESS" THEN 400
                  ELSE 403]_vars

\* C7 witness: in a room that is over a participant's turn request was
\* answered 400, not 403
C7_Witness ==
  /\ response = Resp("processTurn", 400, "Game is not in progress")
  /\ room.status = "COMPLETED"
  /\ turns # <<>>

\* C8: with maxTurns = T, the processTurn commit that computes
\* newTurnNumber = T+1 sets status COMPLETED, currentPlayerId null and
\* endedAt, and the Turn rows 0..T all exist then; a commit that computes
\* newTurnNumber <= T does not complete the room.
C8_CompletionBoundary ==
  response = Resp("processTurn", 200, "ok") =>
    /\ room.currentTurn = room.maxTurns + 1 =>
         /\ room.status = "COMPLETED"
         /\ room.currentPlayerId = NULL
         /\ room.endedAt # NULL
         /\ (0..room.maxTurns) \subseteq TurnNumbers
    /\ room.currentTurn <= room.maxTurns => room.status # "COMPLETED"

\* C8 witness: the commit of the last turn of a two-turn game
C8_Witness ==
  /\ response = Resp("processTurn", 200, "ok")
  /\ room.maxTurns = 2
  /\ room.currentTurn = 3
  /\ room.status = "COMPLETED"

\* C9: no two active participants of a room have the same turn order.
C9_TurnOrderUnique ==
  \A u, v \in ActiveParticipants(participants) :
     participants[u].turnOrder = participants[v].turnOrder => u = v

\* C10: createRoom creates no room with the code of an existing room, and a
\* request that passed validation either succeeds or fails because its 10
\* draws all collided.
C10_CreateRoomContract ==
  /\ \A i, j \in DOMAIN gameRooms : gameRooms[i].code = gameRooms[j].code => i = j
  /\ response.op = "createRoom" /\ response.code \notin {0, 201}
       => response.error \in {"Max players must be between 2 and 20",
                              "Max turns must be between 1 and 50",
                              "Failed to generate unique room code"}

\* the error joinRoom owes the caller u in the current state ("ok": none)
JoinOutcome(u) ==
  IF room.status = "NONE" THEN "Room not found"
  ELSE IF room.status # "WAITING" THEN "Cannot join a game in progress or completed"
  ELSE IF Cardinality({v \in Users : participants[v].exists /\ participants[v].isActive})
            >= room.maxPlayers
       THEN "Room is full"
  ELSE IF participants[u].exists /\ participants[u].isActive
       THEN "You are already in this room"
  ELSE "ok"

HostRowActive ==
  room.status # "NONE" =>
    /\ participants[room.hostId].exists
    /\ participants[room.hostId].isActive
    /\ participants[room.hostId].turnOrder = 0

\* C12: the host of a room always has an active participant row with turn
\* order 0: a leave request of the host, on either back end, fails with
\* HostCannotLeave and changes nothing, and no step deactivates the host's
\* row or changes its turn order.
C12_HostStaysParticipant ==
  /\ HostRowActive
  /\ [][/\ HostRowActive'
        /\ \A u \in Users :
             (response'.op = "leaveRoom" /\ room.status # "NONE" /\ u = room.hostId
                /\ (LeaveBegin(u) \/ LeaveDelete(u)))
               => /\ response' = Resp("leaveRoom", 400, "Host cannot leave. End the game instead.")
                  /\ UNCHANGED <<room, participants, turns>>]_vars

\* C12 witness: the host was refused to leave a room that others have joined
C12_Witness ==
  /\ response = Resp("leaveRoom", 400, "Host cannot leave. End the game instead.")
  /\ Cardinality({u \in Users : participants[u].exists /\ participants[u].isActive}) >= 2

\* the active participant of lowest turn order
LowestActive(ps) ==
  CHOOSE u \in Users :
    /\ ps[u].exists /\ ps[u].isActive
    /\ \A v \in Users : ps[v].exists /\ ps[v].isActive => ps[u].turnOrder <= ps[v].turnOrder

C14_StartGameContract ==
  [][/\ response' = Resp("startGame", 200, "ok") =>
          /\ Len(turns') = Len(turns) + 1
          /\ \A i \in DOMAIN turns : turns'[i] = turns[i]
          /\ turns'[Len(turns')].turnNumber = 0
          /\ turns'[Len(turns')].inputImageUrl = NoImage
          /\ turns'[Len(turns')].outputImageUrl = imageCount + 1
          /\ imageCount' = imageCount + 1
          /\ room'.status = "IN_PROGRESS"
          /\ room'.currentTurn = 1
          /\ room'.currentImageUrl = imageCount + 1
          /\ room'.currentPlayerId = LowestActive(participants')
     /\ (startReq.pc = "idle" /\ startReq'.pc = "generating") =>
          /\ room.status = "WAITING"
          /\ startReq'.hostId = room.hostId
          /\ startReq'.hasImage \/ startReq'.initialPrompt # <<>>
     /\ (response'.op = "startGame" /\ response'.code \notin {0, 200}) =>
          UNCHANGED <<room, participants, turns, imageCount>>
     /\ (response'.op = "startGame" /\ startReq.pc = "idle") =>
          /\ response'.code \in {400, 403, 404}
          /\ UNCHANGED startReq]_vars

\* C14 witness: the game has just been started in a room that a second user
\* had joined
C14_Witness ==
  /\ response = Resp("startGame", 200, "ok")
  /\ Cardinality({u \in Users : participants[u].exists /\ participants[u].isActive}) = 2
  /\ Len(turns) = 1

\* C15: the prompt stored in Turn 0 is either the literal 'Initial uploaded
\* image' or a prompt that passed format validation and moderation, also when
\* an initial image was supplied together with the prompt.
C15_TurnZeroPromptModerated ==
  \A i \in DOMAIN turns :
    turns[i].turnNumber = 0 =>
      \/ turns[i].prompt = INITIAL_UPLOADED_IMAGE
      \/ /\ turns[i].prompt \in Prompts
         /\ ValidatedPrompts[turns[i].prompt] = "valid"
         /\ ~CheckedPrompts[turns[i].prompt].flagged

\* C16: endGame by the host on a COMPLETED or CANCELLED room fails (400, the
\* game has already ended) and leaves every room field unchanged; endGame by
\* anyone other than the host fails (403) and changes nothing.
C16_EndGameRejected ==
  [][\A u \in Users :
       (/\ room.status # "NONE"
        /\ EndGame(u) \/ EndGamePatch(u))
         => /\ (u = room.hostId /\ room.status \in {"COMPLETED", "CANCELLED"})
                 => /\ response'.op = "endGame"
                    /\ response'.code = 400
                    /\ UNCHANGED <<room, participants, turns>>
            /\ u # room.hostId
                 => /\ response'.op = "endGame"
                    /\ response'.code = 403
                    /\ UNCHANGED <<room, participants, turns>>]_vars

\* C17: a successful endGame on a WAITING or IN_PROGRESS room sets status
\* COMPLETED, sets endedAt and clears the current player, and changes nothing
\* else: no turn is created, and currentTurn, the current image, maxTurns and
\* the participant rows keep their values.
C17_EndGameFrame ==
  [][(/\ response' = Resp("endGame", 200, "ok")
      /\ room.status \in {"WAITING", "IN_PROGRESS"})
       => /\ room' = [room EXCEPT !.status = "COMPLETED",
                                  !.endedAt = Now,
                                  !.currentPlayerId = NULL]
          /\ UNCHANGED <<turns, participants, imageCount>>]_vars

\* C17 witness: a started game with a recorded turn has been ended by the host
C17_Witness ==
  /\ response = Resp("endGame", 200, "ok")
  /\ room.status = "COMPLETED"
  /\ room.endedAt = Now
  /\ room.currentPlayerId = NULL
  /\ room.currentTurn >= 1
  /\ Len(turns) >= 1

\* the active participants that immediately follow u in ascending turn order,
\* wrapping from the last to the first
FollowersOf(ps, u) ==
  LET act == ActiveParticipants(ps)
      later == {v \in act : ps[v].turnOrder > ps[u].turnOrder}
      pool == IF later # {} THEN later ELSE act
  IN {v \in pool : \A w \in pool : ps[v].turnOrder <= ps[w].turnOrder}

\* C18: a skip that writes to an IN_PROGRESS room changes the current player
\* and nothing else (no turn recorded; currentTurn, the current image and the
\* status unchanged); on a room that is not IN_PROGRESS a skip fails (400) and
\* changes nothing, also when the status changed between the skip's read and
\* its write.
C18_SkipContract ==
  [][/\ SkipWrite =>
          IF room.status = "IN_PROGRESS"
          THEN /\ room' = [room EXCEPT !.currentPlayerId = room'.currentPlayerId]
               /\ UNCHANGED <<turns, participants, imageCount>>
          ELSE /\ response'.op = "skipTurn"
               /\ response'.code = 400
               /\ UNCHANGED <<room, turns, participants, imageCount>>
     /\ \A u \in Users :
          (/\ room.status \notin {"NONE", "IN_PROGRESS"}
           /\ SkipBegin(u))
            => /\ response'.op = "skipTurn"
               /\ response'.code \in {400, 403}
               /\ UNCHANGED <<room, turns, participants, imageCount, skipReq>>]_vars

\* C19: after a successful processTurn by playerId that does not complete the
\* game, the current actor is the participant immediately following playerId
\* in ascending turn order among the participants active when the turn is
\* committed, wrapping from the last to the first.
C19_NextActorFollows ==
  [][(/\ response' = Resp("processTurn", 200, "ok")
      /\ Len(turns') = Len(turns) + 1
      /\ room'.status = "IN_PROGRESS")
       => room'.currentPlayerId
            \in FollowersOf(participants', turns'[Len(turns')].playerId)]_vars

\* C20: every recorded turn numbered k >= 1 has as input image the output
\* image of the turn numbered k - 1, and turn 0 has a null input, in every
\* reachable state.
C20_ImageChain ==
  \A i \in DOMAIN turns :
    IF turns[i].turnNumber = 0
    THEN turns[i].inputImageUrl = NoImage
    ELSE /\ \E j \in DOMAIN turns : turns[j].turnNumber = turns[i].turnNumber - 1
         /\ \A j \in DOMAIN turns :
              turns[j].turnNumber = turns[i].turnNumber - 1
                => turns[i].inputImageUrl = turns[j].outputImageUrl

\* C21: the mutating operations are all-or-nothing against the store: a step
\* that reports an error leaves the room, the participant rows and the turns
\* as they were, and a step that writes any of them completes its operation
\* and reports success.
C21_AllOrNothing ==
  [][/\ (response' # response /\ response'.code \notin {0, 200})
          => UNCHANGED <<room, participants, turns>>
     /\ <<room, participants, turns>>' # <<room, participants, turns>>
          => response'.code = 200]_vars

\* C22: checkPrompt is deterministic: two calls with the same prompt, in any
\* order and with any other calls in between, return the same flagged value,
\* the same reason and the same cleanedPrompt.
C22_CheckDeterministic ==
  \A i, j \in DOMAIN checkCalls :
    checkCalls[i].prompt = checkCalls[j].prompt
      => checkCalls[i].result = checkCalls[j].result

\* C22 witness: a prompt caught by a pattern was checked, then another
\* prompt, then the first prompt again, and it was flagged both times
C22_Witness ==
  /\ Len(checkCalls) = 3
  /\ checkCalls[1].prompt = P_PATTERN
  /\ checkCalls[2].prompt = P_OK
  /\ checkCalls[3].prompt = P_PATTERN
  /\ checkCalls[1].result.flagged
  /\ checkCalls[3].result.flagged
  /\ ~checkCalls[2].result.flagged

\* the checkPrompt calls whose log write worked
LoggedCalls == SelectSeq(checkCalls, LAMBDA c : c.logWorks)

\* C23: every checkPrompt call writes one audit log entry holding the
\* prompt, the flag outcome and the reason (unless the log write itself
\* fails), and a failing log write does not change what the check returns.
C23_EveryCheckLogged ==
  /\ Len(moderationLog) = Len(LoggedCalls)
  /\ \A i \in DOMAIN moderationLog :
       /\ moderationLog[i].prompt = Substring(LoggedCalls[i].prompt, LogPromptLength)
       /\ moderationLog[i].flagged = LoggedCalls[i].result.flagged
       /\ moderationLog[i].reason = LoggedCalls[i].result.reason
  /\ \A i \in DOMAIN checkCalls :
       checkCalls[i].result = CheckedPrompts[checkCalls[i].prompt]

\* C24: on the serverless back end, when the remote image service fails
\* during a turn submission, no turn is recorded, the room is unchanged, a
\* turn:error notification is published and the submitter is still the
\* current actor.
C24_RemoteFailureKeepsTurn ==
  [][\A r \in TurnSlots :
       PutTurnCommit(r, "failure")
         => /\ UNCHANGED <<room, turns>>
            /\ "turn:error" \in published'
            /\ room.status = "IN_PROGRESS" =>
                 room'.currentPlayerId = room.currentPlayerId]_vars

\* C25: the adapter polls a job at most 30 times: it returns at the first
\* poll that reports success, it stops and fails as soon as a poll returns an
\* error payload, and it fails with a timeout only after the 30th poll
\* without a result.
C25_PollContract ==
  [][(pollReq.pc = "polling" /\ pollReq' # pollReq) =>
       /\ pollReq'.polls <= PollMaxAttempts
       /\ (pollReq'.polls = pollReq.polls + 1 /\ pollReq'.last = "success")
            => pollReq'.pc = "returned"
       /\ (pollReq'.polls = pollReq.polls + 1 /\ pollReq'.last = "error")
            => pollReq'.pc = "failed"
       /\ pollReq'.pc = "timeout" => pollReq.polls = PollMaxAttempts]_vars

\* the cleaned prompts of the prompts that pass format validation and
\* moderation
PassingPrompts ==
  {CheckedPrompts[p].cleanedPrompt :
     p \in {q \in Prompts : ValidatedPrompts[q] = "valid" /\ ~CheckedPrompts[q].flagged}}

\* C26: turn:processing is published only by a submission that has passed
\* the status, ownership, format and moderation checks, and at the moment its
\* image edit starts; turn:error, game:turnCompleted and game:completed of a
\* submission are published only by a request whose edit is in flight, that
\* is after its turn:processing; a rejected submission publishes no
\* turn:processing.
C26_ProcessingNotifiedFirst ==
  [][/\ "turn:processing" \in published' =>
          \E r \in TurnSlots :
            /\ turnReq[r].pc = "idle"
            /\ turnReq'[r].pc = "editing"
            /\ room.status = "IN_PROGRESS"
            /\ room.currentPlayerId = turnReq'[r].playerId
            /\ turnReq'[r].cleanedPrompt \in PassingPrompts
            /\ response' = NoResponse
     /\ \A r \in TurnSlots :
          (turnReq[r].pc = "idle" /\ turnReq'[r].pc = "editing")
            => published' = {"turn:processing"}
     /\ (\/ "turn:error" \in published'
         \/ /\ response'.op = "processTurn"
            /\ published' \cap {"game:turnCompleted", "game:completed"} # {})
          => \E r \in TurnSlots : turnReq[r].pc = "editing" /\ turnReq'[r].pc = "idle"
     /\ (response'.op = "processTurn" /\ response'.code \notin {0, 200}
           /\ \A r \in TurnSlots : turnReq[r].pc = "editing" => turnReq'[r] = turnReq[r])
          => published' = {}]_vars

\* C26 witness: an image edit has failed after the submission was announced
C26_Witness ==
  /\ published = {"turn:error"}
  /\ response.op = "processTurn"
  /\ response.code = 504

\* C27: a room's currentTurn never decreases, over any interleaving of
\* start, turn, skip, leave and end requests, and each successful processTurn
\* raises it by exactly 1.
C27_CurrentTurnMonotone ==
  [][/\ room'.currentTurn >= room.currentTurn
     /\ (response' = Resp("processTurn", 200, "ok") /\ Len(turns') = Len(turns) + 1)
          => room'.currentTurn = room.currentTurn + 1]_vars

\* C28: in every reachable state the number of active participants of a room
\* is at most the room's maxPlayers.
C28_RoomNeverOverfull ==
  room.status # "NONE" =>
    Cardinality(ActiveParticipants(participants)) <= room.maxPlayers

\* C29: in every reachable state the room has maxPlayers in [2,20] and
\* maxTurns in [1,50], and the settings do not change once the room has left
\* WAITING.
C29_SettingsInRange ==
  [][/\ room'.status # "NONE" =>
          /\ room'.maxPlayers >= MinPlayers /\ room'.maxPlayers <= MaxPlayers
          /\ room'.maxTurns >= MinTurns /\ room'.maxTurns <= MaxTurns
     /\ room.status \notin {"NONE", "WAITING"} =>
          /\ room'.maxPlayers = room.maxPlayers
          /\ room'.maxTurns = room.maxTurns]_vars

\* C30: a started game always finishes: when the current actor keeps
\* submitting prompts that pass the checks and every image edit succeeds, an
\* IN_PROGRESS room reaches COMPLETED whatever joins, leaves and skips happen
\* in between, and it is never IN_PROGRESS with currentTurn > maxTurns.
C30_GameFinishes ==
  /\ [](room.status = "IN_PROGRESS" => room.currentTurn <= room.maxTurns)
  /\ (room.status = "IN_PROGRESS") ~> (room.status = "COMPLETED")

====
